---- MODULE Spec2Model ----
(***************************************************************************)
(* A model of the stateful utilities of stgpytools:                        *)
(*   - LinearRangeLut (types/utils.py), the self-adjusting range lookup;   *)
(*   - inject_self and its variants (types/utils.py), the self-injecting   *)
(*     method descriptors and the process-wide receiver cache.             *)
(***************************************************************************)
EXTENDS Integers, Sequences, FiniteSets, TLC

\* ------------------------------------------------------------------------
\* Bounds of the model
\* ------------------------------------------------------------------------
MaxBuckets == 3      \* buckets in a supplied mapping
MaxKey == 3          \* keys and range endpoints are drawn from 0..MaxKey
MaxMisses == 4       \* cap of the (unbounded) miss counter
MaxObjs == 3         \* objects on the heap (one of them exists from the start)

VARIABLES
    ranges,            \* LinearRangeLut.ranges: the supplied mapping, as its items() in order
    _ranges_idx_lut,   \* LinearRangeLut._ranges_idx_lut: the current scan order
    _misses_n,         \* LinearRangeLut._misses_n
    lastLookup         \* the outcome of the latest __getitem__ call (observer)

lutVars == <<ranges, _ranges_idx_lut, _misses_n, lastLookup>>

VARIABLES
    desc,                \* per decorated method: the fields of its inject_self_base object
    self_objects_cache,  \* the module-level dict type -> cached receiver
    heap,                \* the objects that exist, by identity (index)
    wrapper,             \* the _wrapper closure a __get__ returned and the caller holds
    lastGet,             \* the outcome of the latest __get__ (observer)
    lastCall,            \* the latest call of the held wrapper: its inputs and what it
                         \* forwarded to the wrapped function (observer)
    ran                  \* whether a wrapped function has been run yet (observer)

injVars == <<desc, self_objects_cache, heap, wrapper, lastGet, lastCall, ran>>

VARIABLES
    fnCall,              \* a call of one of the module-level functions: its name and arguments
    fnResult             \* what that call returned or raised, once it has run

fnVars == <<fnCall, fnResult>>

VARIABLES
    coords,              \* the Coordinate objects that exist, by identity (index)
    lastCoord            \* the outcome of the latest Coordinate(...) call (observer)

coordVars == <<coords, lastCoord>>

VARIABLES
    gen,                 \* a generator object: its function, arguments and suspended frame
    yielded,             \* the values it has yielded so far, in order (observer)
    genRaised            \* the exception the latest call or next() let out, or "none"

genVars == <<gen, yielded, genRaised>>

VARIABLES
    cpObjs,              \* the objects of a class with cachedproperty members, by identity
    cpDicts,             \* the cache dicts that exist, by identity
    getterRuns,          \* per object and property: how often its getter has run (observer)
    lastRead             \* the outcome of the latest property read (observer)

cpVars == <<cpObjs, cpDicts, getterRuns, lastRead>>

VARIABLES
    _instances,          \* SingletonMeta._instances: class -> instance
    singletons,          \* the instances of singleton classes that exist, by identity
    lastNew              \* the outcome of the latest call of a singleton class (observer)

sgVars == <<_instances, singletons, lastNew>>

laterVars == <<genVars, cpVars, sgVars>>

vars == <<lutVars, injVars, fnVars, coordVars, laterVars>>

\* What an operation on one of the components leaves alone
notLut == <<injVars, fnVars, coordVars, laterVars>>
notInj == <<lutVars, fnVars, coordVars, laterVars>>
notFn == <<lutVars, injVars, coordVars, laterVars>>
notCoord == <<lutVars, injVars, fnVars, laterVars>>
notGen == <<lutVars, injVars, fnVars, coordVars, cpVars, sgVars>>
notCp == <<lutVars, injVars, fnVars, coordVars, genVars, sgVars>>
notSg == <<lutVars, injVars, fnVars, coordVars, genVars, cpVars>>

\* ------------------------------------------------------------------------
\* LinearRangeLut
\* ------------------------------------------------------------------------

\* The non-empty ranges range(lo, hi) over the keys of the model.
KeyRanges == { r \in (0..MaxKey) \X (0..MaxKey) : r[1] < r[2] }

\* The mappings a table is built from: distinct identifiers 0, 1, ... in
\* insertion order, each with a non-empty range(lo, hi); ranges may overlap.
\* A bucket is one item of the mapping: identifier idx -> range(lo, hi).
Mappings ==
    UNION { { [i \in 1..len |-> [idx |-> i - 1, lo |-> r[i][1], hi |-> r[i][2]]]
              : r \in [1..len -> KeyRanges] }
            : len \in 0..MaxBuckets }

\* n in range(lo, hi)
InRange(n, k) == k.lo <= n /\ n < k.hi

\* The threshold of the rotation test `self._misses_n > 2`.
MissThreshold == 2

\* `if missed_hit:` ... `if self._misses_n > 2:` (misses is the counter after
\* this lookup's increment)
RotationDueAtThreshold(missed_hit, misses) == missed_hit # 0 /\ misses >= MissThreshold
RotationDue(missed_hit, misses) == missed_hit # 0 /\ misses > MissThreshold

\* The for loop of __getitem__, from 1-based position i: the position at which
\* the loop breaks, or the last position when it runs to its end.
ScanNoBreak(lut, n, i) == Len(lut)
RECURSIVE ScanFrom(_, _, _)
ScanFrom(lut, n, i) ==
    IF InRange(n, lut[i]) THEN i
    ELSE IF i = Len(lut) THEN i
    ELSE ScanFrom(lut, n, i + 1)

\* lut[missed_hit:] + lut[:missed_hit]
RotateDropsHit(lut, missed_hit) ==
    SubSeq(lut, missed_hit + 2, Len(lut)) \o SubSeq(lut, 1, missed_hit)
RotateSwap(lut, missed_hit) ==
    [i \in 1..Len(lut) |->
        IF i = 1 THEN lut[missed_hit + 1]
        ELSE IF i = missed_hit + 1 THEN lut[1] ELSE lut[i]]
Rotate(lut, missed_hit) ==
    SubSeq(lut, missed_hit + 1, Len(lut)) \o SubSeq(lut, 1, missed_hit)

NoLookup == [called |-> FALSE]

\* LinearRangeLut.__init__
InitLut ==
    /\ ranges \in Mappings
    /\ _ranges_idx_lut = ranges
    /\ _misses_n = 0
    /\ lastLookup = NoLookup

\* if missed_hit: self._misses_n += 1
CountMissAlways(missed_hit, misses_n) == misses_n + 1
CountMiss(missed_hit, misses_n) == IF missed_hit # 0 THEN misses_n + 1 ELSE misses_n

\* LinearRangeLut.__getitem__(n)
GetItem(n) ==
    IF Len(_ranges_idx_lut) = 0
    THEN \* the loop body never runs: `if missed_hit` reads an unbound local
         /\ lastLookup' = [called |-> TRUE, n |-> n, raised |-> "UnboundLocalError",
                           before |-> _ranges_idx_lut]
         /\ UNCHANGED <<ranges, _ranges_idx_lut, _misses_n, notLut>>
    ELSE LET missed_hit == ScanFrom(_ranges_idx_lut, n, 1) - 1
             idx == _ranges_idx_lut[missed_hit + 1].idx
             misses == CountMiss(missed_hit, _misses_n)
             rotate == RotationDue(missed_hit, misses)
         IN  /\ misses <= MaxMisses
             /\ _misses_n' = misses
             /\ _ranges_idx_lut' =
                    IF rotate THEN Rotate(_ranges_idx_lut, missed_hit)
                    ELSE _ranges_idx_lut
             /\ lastLookup' = [called |-> TRUE, n |-> n, raised |-> "none",
                               ret |-> idx, missed_hit |-> missed_hit,
                               rotated |-> rotate, before |-> _ranges_idx_lut]
             /\ UNCHANGED <<ranges, notLut>>

LutNext == \E n \in 0..MaxKey : GetItem(n)

\* ------------------------------------------------------------------------
\* inject_self: values, classes and the decorated methods
\* ------------------------------------------------------------------------

\* Python values that take part in a call: None, an int, a class, or an
\* object (by its place on the heap).
NoneV == [kind |-> "none", name |-> "", id |-> 0]
IntV(s) == [kind |-> "int", name |-> s, id |-> 0]
ClassV(c) == [kind |-> "class", name |-> c, id |-> 0]
ObjV(i) == [kind |-> "obj", name |-> "", id |-> i]

\* The owning class C, its subclass S, and an unrelated class D; all have the
\* metaclass `type`.
IsSubclass(a, b) == a = b \/ (a = "S" /\ b = "C")

\* dict values: functions from a finite set of names
EmptyKw == [k \in {} |-> NoneV]
\* a | b
DictUnion(a, b) ==
    [k \in (DOMAIN a) \cup (DOMAIN b) |-> IF k \in DOMAIN b THEN b[k] ELSE a[k]]
\* {k: v for k, v in d.items() if k in keys}
DictOnly(d, keys) == [k \in (DOMAIN d) \cap keys |-> d[k]]
\* {k: v for k, v in d.items() if k not in keys}
DictWithout(d, keys) == [k \in (DOMAIN d) \ keys |-> d[k]]

SeqToSet(q) == { q[i] : i \in 1..Len(q) }

\* The methods of class C and how each is decorated: the descriptor class
\* (variant), the with_args / clean configuration, and the wrapped function's
\* signature: its named parameters in order, and whether it has a **kwargs
\* parameter (kind 4).
\*   plain       @inject_self
\*   with_args   @inject_self.with_args(7, k=8)
\*   cached      @inject_self.cached
\*   cached_with @inject_self.cached.with_args(7, k=8)
\*   init_with   @inject_self.init_kwargs.with_args(7, k=8)
\*   init_clean  @inject_self.init_kwargs.clean
\*   init_nokw   @inject_self.init_kwargs on def f(self, x)
\*   cache_kw    inject_self(f, cache=True)
\*   cached_prop the inject_self(function) that @inject_self.cached.property
\*               keeps as self.function, on def prop(self)
\*   plain_prop  the same of @inject_self.property
\* all but init_nokw and cached_prop on def f(self, x, **kwargs).  cache_arg is the value
\* passed for the keyword parameter `cache` of __init__.
Methods ==
    [ plain       |-> [variant |-> "inject_self", args |-> <<>>, kwargs |-> EmptyKw,
                       clean |-> FALSE, params |-> <<"self", "x">>, varkw |-> TRUE, cache_arg |-> FALSE],
      with_args   |-> [variant |-> "inject_self", args |-> <<IntV("7")>>,
                       kwargs |-> [k |-> IntV("8")],
                       clean |-> FALSE, params |-> <<"self", "x">>, varkw |-> TRUE, cache_arg |-> FALSE],
      cached      |-> [variant |-> "cached", args |-> <<>>, kwargs |-> EmptyKw,
                       clean |-> FALSE, params |-> <<"self", "x">>, varkw |-> TRUE, cache_arg |-> FALSE],
      cached_with |-> [variant |-> "cached", args |-> <<IntV("7")>>,
                       kwargs |-> [k |-> IntV("8")],
                       clean |-> FALSE, params |-> <<"self", "x">>, varkw |-> TRUE, cache_arg |-> FALSE],
      init_with   |-> [variant |-> "init_kwargs", args |-> <<IntV("7")>>,
                       kwargs |-> [k |-> IntV("8")],
                       clean |-> FALSE, params |-> <<"self", "x">>, varkw |-> TRUE, cache_arg |-> FALSE],
      init_clean  |-> [variant |-> "init_kwargs", args |-> <<>>, kwargs |-> EmptyKw,
                       clean |-> TRUE, params |-> <<"self", "x">>, varkw |-> TRUE, cache_arg |-> FALSE],
      init_nokw   |-> [variant |-> "init_kwargs", args |-> <<>>, kwargs |-> EmptyKw,
                       clean |-> FALSE, params |-> <<"self", "x">>, varkw |-> FALSE, cache_arg |-> FALSE],
      cache_kw    |-> [variant |-> "inject_self", args |-> <<>>, kwargs |-> EmptyKw,
                       clean |-> FALSE, params |-> <<"self", "x">>, varkw |-> TRUE,
                       cache_arg |-> TRUE],
      cached_prop |-> [variant |-> "inject_self", args |-> <<>>, kwargs |-> EmptyKw,
                       clean |-> FALSE, params |-> <<"self">>, varkw |-> FALSE,
                       cache_arg |-> FALSE],
      plain_prop  |-> [variant |-> "inject_self", args |-> <<>>, kwargs |-> EmptyKw,
                       clean |-> FALSE, params |-> <<"self">>, varkw |-> FALSE,
                       cache_arg |-> FALSE] ]

MethodNames == DOMAIN Methods

\* first_key when the signature has no parameter at all (None)
NoKey == ""

\* inject_self_base.__init__, with the attributes with_args() and clean() set
\* right after it: the state of a descriptor before its first __get__.
\* init_kwargs is None (set = FALSE) until __get__ computes the list.
\* __init__ sets self.cache from the class of the descriptor alone: it never
\* reads its parameter `cache` (Methods[m].cache_arg).
DescInit(m) ==
    [ cache |-> (Methods[m].variant = "cached"),
      signature |-> FALSE,
      first_key |-> NoKey,
      init_kwargs |-> [set |-> FALSE, names |-> <<>>],
      args |-> Methods[m].args,
      kwargs |-> Methods[m].kwargs,
      clean_kwargs |-> Methods[m].clean ]

\* bool(value)
Truthy(v) ==
    CASE v.kind = "none" -> FALSE
      [] v.kind = "int" -> v.name # "0"
      [] v.kind = "class" -> TRUE
      [] v.kind = "obj" -> TRUE    \* the classes define no __bool__ or __len__

\* isinstance(value, class_type)
IsInstance(v, class_type) ==
    v.kind = "obj" /\ IsSubclass(heap[v.id].type, class_type)

\* isinstance(value, type(class_type)) or value is class_type: the value is a class
IsClassObject(v, class_type) == v.kind = "class"

\* An object as the constructor call type(*args, **kwargs) leaves it; `how`
\* names the branch of _wrapper that built it ("pre": it existed before).
NewObject(type, args, kwargs, how) ==
    [type |-> type, args |-> args, kwargs |-> kwargs, how |-> how]

NoWrapper == [held |-> FALSE, m |-> "", class_obj |-> NoneV, class_type |-> ""]
NoGet == [done |-> FALSE, m |-> "", first |-> FALSE, raised |-> "none"]
NoCall == [called |-> FALSE]

\* The process at import time: nothing cached, no descriptor used yet, and one
\* instance of C made by the program itself.
InitInj ==
    /\ desc = [m \in MethodNames |-> DescInit(m)]
    /\ self_objects_cache = EmptyKw
    /\ heap = << NewObject("C", <<>>, EmptyKw, "pre") >>
    /\ wrapper = NoWrapper
    /\ lastGet = NoGet
    /\ lastCall = NoCall
    /\ ran = FALSE

\* next(iter(list(self.signature.parameters.keys())), None)
FirstKey(m) ==
    IF Len(Methods[m].params) > 0 \/ Methods[m].varkw
    THEN (IF Len(Methods[m].params) > 0 THEN Methods[m].params[1] ELSE "kwargs")
    ELSE NoKey

\* 4 not in {x.kind for x in self.signature.parameters.values()}
NoVarKeywordIgnored(m) == FALSE
NoVarKeyword(m) == ~Methods[m].varkw

\* [k for k, x in self.signature.parameters.items() if x.kind != 4]
NamedParameters(m) == Methods[m].params

\* inject_self_base.__get__(class_obj, class_type) of method m's descriptor
Get(m, class_obj, class_type) ==
    LET d == desc[m]
        first == ~d.signature \/ d.first_key = NoKey
        isInit == Methods[m].variant = "init_kwargs"
        raises == first /\ isInit /\ NoVarKeyword(m)
        memo == [d EXCEPT !.signature = TRUE, !.first_key = FirstKey(m)]
    IN  /\ desc' = [desc EXCEPT ![m] =
                      IF ~first THEN d
                      ELSE IF isInit /\ ~raises
                           THEN [memo EXCEPT !.init_kwargs =
                                    [set |-> TRUE, names |-> NamedParameters(m)]]
                           ELSE memo]
        /\ lastGet' = [done |-> TRUE, m |-> m, first |-> first,
                       raised |-> IF raises THEN "CustomValueError" ELSE "none"]
        /\ wrapper' = IF raises THEN wrapper
                      ELSE [held |-> TRUE, m |-> m, class_obj |-> class_obj,
                            class_type |-> class_type]
        /\ lastCall' = IF raises THEN lastCall ELSE NoCall
        /\ UNCHANGED <<self_objects_cache, heap, ran, notInj>>

\* ------------------------------------------------------------------------
\* inject_self: the _wrapper closure
\* ------------------------------------------------------------------------

\* (args[0] if args else None) or (kwargs.get(self.first_key, None) if self.first_key else None)
FirstArg(d, args, kwargs) ==
    LET a0 == IF Len(args) > 0 THEN args[1] ELSE NoneV
        k0 == IF d.first_key # NoKey /\ d.first_key \in DOMAIN kwargs
              THEN kwargs[d.first_key] ELSE NoneV
    IN  IF Truthy(a0) THEN a0 ELSE k0

\* first_arg and (isinstance(first_arg, class_type)
\*                or isinstance(first_arg, type(class_type)) or first_arg is class_type)
ReceiverGiven(first_arg, class_type) ==
    Truthy(first_arg)
    /\ (IsInstance(first_arg, class_type) \/ IsClassObject(first_arg, class_type))

\* if args: args = args[1:]
\* elif kwargs and self.first_key: kwargs.pop(self.first_key)
StripArgs(d, args, kwargs) == IF Len(args) > 0 THEN Tail(args) ELSE args
StripKwargs(d, args, kwargs) ==
    IF Len(args) > 0 THEN kwargs
    ELSE IF DOMAIN kwargs # {} /\ d.first_key # NoKey
         THEN DictWithout(kwargs, {d.first_key})
         ELSE kwargs

\* if self.cache:
UseCacheAlways(d) == TRUE
UseCacheNever(d) == FALSE
UseCache(d) == d.cache

\* if class_type not in self_objects_cache:
CacheMissAlways(class_type) == TRUE
CacheMiss(class_type) == class_type \notin DOMAIN self_objects_cache

\* elif self.init_kwargs:  (None and the empty list are falsy)
UseInitKwargsAlways(d) == TRUE
UseInitKwargs(d) == d.init_kwargs.set /\ Len(d.init_kwargs.names) > 0

\* self.kwargs | {k: v for k, v in kwargs.items() if k not in self.init_kwargs}
InitCtorKwargsMatching(d, kwargs) ==
    DictUnion(d.kwargs, DictOnly(kwargs, SeqToSet(d.init_kwargs.names)))
InitCtorKwargs(d, kwargs) ==
    DictUnion(d.kwargs, DictWithout(kwargs, SeqToSet(d.init_kwargs.names)))

\* if self.clean_kwargs: kwargs = {k: v for k, v in kwargs.items() if k in self.init_kwargs}
InitForwardKwargs(d, kwargs) ==
    IF d.clean_kwargs THEN DictOnly(kwargs, SeqToSet(d.init_kwargs.names)) ELSE kwargs

\* What one call of _wrapper(*args, **kwargs) does, for the wrapper w of a
\* descriptor in state d: whether it constructs an object (and which one),
\* whether it stores it in self_objects_cache, the receiver obj, and the
\* arguments it forwards to self.function.  new is the identity a constructed
\* object gets.
WrapperCall(w, d, args, kwargs, new) ==
    LET first_arg == FirstArg(d, args, kwargs)
        is_obj == IsInstance(first_arg, w.class_type)
        keep == [builds |-> FALSE, object |-> NewObject("", <<>>, EmptyKw, ""),
                 caches |-> FALSE, branch |-> "", obj |-> 0,
                 args |-> args, kwargs |-> kwargs]
    IN  IF ReceiverGiven(first_arg, w.class_type)
        THEN [keep EXCEPT
                !.branch = "given",
                !.builds = ~is_obj,
                !.object = NewObject(first_arg.name, <<>>, EmptyKw, "first_arg"),
                !.obj = IF is_obj THEN first_arg.id ELSE new,
                !.args = StripArgs(d, args, kwargs),
                !.kwargs = StripKwargs(d, args, kwargs)]
        ELSE IF w.class_obj = NoneV
        THEN IF UseCache(d)
             THEN IF CacheMiss(w.class_type)
                  THEN [keep EXCEPT
                          !.branch = "cache", !.builds = TRUE, !.caches = TRUE,
                          !.object = NewObject(w.class_type, d.args, d.kwargs, "cache"),
                          !.obj = new]
                  ELSE [keep EXCEPT
                          !.branch = "cache", !.obj = self_objects_cache[w.class_type]]
             ELSE IF UseInitKwargs(d)
             THEN [keep EXCEPT
                     !.branch = "init_kwargs", !.builds = TRUE,
                     !.object = NewObject(w.class_type, d.args,
                                          InitCtorKwargs(d, kwargs), "init_kwargs"),
                     !.obj = new,
                     !.kwargs = InitForwardKwargs(d, kwargs)]
             ELSE [keep EXCEPT
                     !.branch = "plain", !.builds = TRUE,
                     !.object = NewObject(w.class_type, d.args, d.kwargs, "plain"),
                     !.obj = new]
        ELSE [keep EXCEPT !.branch = "bound", !.obj = w.class_obj.id]

\* The values a caller passes. First positional argument: None, an int, a
\* class, or any existing object; optionally one more positional argument.
\* Keywords: the first parameter's name with an int, a class or an instance,
\* the named parameter x, and a name k that only **kwargs takes.
FirstVals ==
    {NoneV, IntV("5"), ClassV("C"), ClassV("D")} \cup { ObjV(i) : i \in 1..Len(heap) }
PosArgs ==
    {<<>>} \cup { <<a>> : a \in FirstVals }
           \cup { <<a, IntV("6")>> : a \in {NoneV, IntV("5"), ObjV(1)} }
KwArgs ==
    { DictUnion(a, b) :
        a \in {EmptyKw, [self |-> IntV("5")], [self |-> ClassV("D")], [self |-> ObjV(1)]},
        b \in {EmptyKw, [k |-> IntV("5")], [x |-> IntV("5"), k |-> IntV("5")]} }

\* _wrapper(*args, **kwargs) of the held wrapper, through self.function(obj, ...).
\* The caller drops the wrapper after the call (C.method(...) is one access
\* and one call; a wrapper reads the descriptor and the cache only when it is
\* called, so calling a kept wrapper again equals accessing it again).
Call(args, kwargs) ==
    /\ wrapper.held
    /\ LET d == desc[wrapper.m]
           r == WrapperCall(wrapper, d, args, kwargs, Len(heap) + 1)
       IN  /\ r.builds => Len(heap) < MaxObjs
           /\ heap' = IF r.builds THEN Append(heap, r.object) ELSE heap
           /\ self_objects_cache' =
                 IF r.caches
                 THEN DictUnion(self_objects_cache, [t \in {wrapper.class_type} |-> r.obj])
                 ELSE self_objects_cache
           /\ lastCall' = [called |-> TRUE, m |-> wrapper.m,
                           class_obj |-> wrapper.class_obj, class_type |-> wrapper.class_type,
                           args |-> args, kwargs |-> kwargs,
                           branch |-> r.branch, built |-> r.builds,
                           obj |-> r.obj, fwd_args |-> r.args, fwd_kwargs |-> r.kwargs]
           /\ ran' = TRUE
           /\ wrapper' = NoWrapper
           /\ UNCHANGED <<desc, lastGet, notInj>>

\* Attribute access to one of the methods ms through one of the classes ts
\* (C or its subclass S), or through an instance of C
GetViaClass(ms, ts) == \E m \in ms, t \in ts : Get(m, NoneV, t)
GetViaInstance(ms) ==
    \E m \in ms, i \in 1..Len(heap) :
        /\ IsSubclass(heap[i].type, "C")
        /\ Get(m, ObjV(i), heap[i].type)
CallWrapper == \E args \in PosArgs, kwargs \in KwArgs : Call(args, kwargs)

\* inject_self.cached.property.__get__(class_obj, class_type) of property m
\* (inject_self.property.__get__ has the same body):
\* return self.function.__get__(class_obj, class_type)(), the access of the
\* inner descriptor and the call of its wrapper without arguments in one
\* step. The wrapper is local to __get__; one the caller holds is untouched.
PropertyGet(m, class_obj, class_type) ==
    LET d == desc[m]
        first == ~d.signature \/ d.first_key = NoKey
        got == IF first
               THEN [d EXCEPT !.signature = TRUE, !.first_key = FirstKey(m)]
               ELSE d
        w == [held |-> TRUE, m |-> m, class_obj |-> class_obj, class_type |-> class_type]
        r == WrapperCall(w, got, <<>>, EmptyKw, Len(heap) + 1)
    IN  /\ r.builds => Len(heap) < MaxObjs
        /\ desc' = [desc EXCEPT ![m] = got]
        /\ lastGet' = [done |-> TRUE, m |-> m, first |-> first, raised |-> "none"]
        /\ heap' = IF r.builds THEN Append(heap, r.object) ELSE heap
        /\ self_objects_cache' =
              IF r.caches
              THEN DictUnion(self_objects_cache, [t \in {class_type} |-> r.obj])
              ELSE self_objects_cache
        /\ lastCall' = [called |-> TRUE, m |-> m,
                        class_obj |-> class_obj, class_type |-> class_type,
                        args |-> <<>>, kwargs |-> EmptyKw,
                        branch |-> r.branch, built |-> r.builds,
                        obj |-> r.obj, fwd_args |-> r.args, fwd_kwargs |-> r.kwargs]
        /\ ran' = TRUE
        /\ UNCHANGED <<wrapper, notInj>>

\* Reading one of the properties ms as an attribute of one of the classes ts,
\* or of an instance of C
ReadPropertyViaClass(ms, ts) == \E m \in ms, t \in ts : PropertyGet(m, NoneV, t)
ReadPropertyViaInstance(ms) ==
    \E m \in ms, i \in 1..Len(heap) :
        /\ IsSubclass(heap[i].type, "C")
        /\ PropertyGet(m, ObjV(i), heap[i].type)

\* ------------------------------------------------------------------------
\* functions/normalize.py: frame lists and frame ranges
\* ------------------------------------------------------------------------

\* The integers a caller passes as frame numbers and range endpoints, the
\* lengths of the lists it passes, and the clip lengths (`end`)
MaxVal == 2
MaxLen == 4
MaxMinLength == 2
MaxEnd == 3
Vals == (0 - MaxVal)..MaxVal

\* sorted(set): the elements of a finite set of integers in ascending order
RECURSIVE Sorted(_)
Sorted(S) ==
    IF S = {} THEN <<>>
    ELSE LET least == CHOOSE a \in S : \A b \in S : a <= b
         IN  <<least>> \o Sorted(S \ {least})

\* if prev_n + 1 != n:
RunBreaksNever(prev_n, n) == FALSE
RunBreaks(prev_n, n) == prev_n + 1 # n

\* The loop of normalize_list_to_ranges over sorted(set(flist)) from position
\* i on, with the values prev_n, flist2 and flist3 have there, and the append
\* of the last run after it.
RECURSIVE GroupRuns(_, _, _, _, _)
GroupRuns(sorted, i, prev_n, flist2, flist3) ==
    IF i > Len(sorted)
    THEN IF flist3 # <<>> THEN Append(flist2, flist3) ELSE flist2
    ELSE LET n == sorted[i]
             closes == RunBreaks(prev_n, n) /\ flist3 # <<>>
         IN  GroupRuns(sorted, i + 1, n,
                       IF closes THEN Append(flist2, flist3) ELSE flist2,
                       Append(IF closes THEN <<>> ELSE flist3, n))

\* len(i) > min_length
LongEnough(run, min_length) == Len(run) > min_length

\* normalize_list_to_ranges on the set of its iterable's elements
RangesOfSet(S, min_length) ==
    LET flist2 == GroupRuns(Sorted(S), 1, -1, <<>>, <<>>)
        flist4 == SelectSeq(flist2, LAMBDA run : LongEnough(run, min_length))
    IN  [ j \in 1..Len(flist4) |-> <<flist4[j][1], flist4[j][Len(flist4[j])]>> ]

\* normalize_list_to_ranges(flist, min_length)
normalize_list_to_ranges(flist, min_length) == RangesOfSet(SeqToSet(flist), min_length)

\* list(range(start, stop, step)) for step 1 or -1
RangeList(start, stop, step) ==
    IF step = 1
    THEN [ i \in 1..(IF stop > start THEN stop - start ELSE 0) |-> start + i - 1 ]
    ELSE [ i \in 1..(IF start > stop THEN start - stop ELSE 0) |-> start - i + 1 ]

\* A range specification: None, an int, or a tuple of two endpoints each of
\* which is an int or None.  An endpoint is [none, v]; an int i is held in
\* `start`.
NoneEnd == [none |-> TRUE, v |-> 0]
IntEnd(v) == [none |-> FALSE, v |-> v]
NoneRange == [kind |-> "none", start |-> NoneEnd, stop |-> NoneEnd]
IntRange(i) == [kind |-> "int", start |-> IntEnd(i), stop |-> IntEnd(i)]
TupleRange(a, b) == [kind |-> "tuple", start |-> a, stop |-> b]

\* The body of the loop of normalize_ranges for one r: the pair appended to out
\* if start < 0: start = end - 1 + start;  if endd < 0: endd = end - 1 + endd
FromEndKeepsNegative(v, end) == v
FromEnd(v, end) == IF v < 0 THEN end - 1 + v ELSE v
ResolveRange(r, end) ==
    LET t == IF r.kind = "none" THEN TupleRange(NoneEnd, NoneEnd) ELSE r
        start == IF t.kind = "tuple"
                 THEN (IF t.start.none THEN 0 ELSE t.start.v)
                 ELSE t.start.v
        endd == IF t.kind = "tuple"
                THEN (IF t.stop.none THEN end - 1 ELSE t.stop.v)
                ELSE t.start.v
    IN  <<FromEnd(start, end), FromEnd(endd, end)>>

\* [x for start, endd in out for x in range(start, endd + 1)]
RECURSIVE FlattenClosed(_)
FlattenClosed(out) ==
    IF out = <<>> THEN <<>>
    ELSE RangeList(out[1][1], out[1][2] + 1, 1) \o FlattenClosed(Tail(out))

\* ranges if isinstance(ranges, list) else [ranges]
\* The argument is [list, val]: a list of range specifications, or one.
AsList(rspec) == IF rspec.list THEN rspec.val ELSE <<rspec.val>>

\* normalize_ranges(ranges, end); rspec is the argument `ranges`
normalize_ranges(rspec, end) ==
    LET rs == AsList(rspec)
        out == [ j \in 1..Len(rs) |-> ResolveRange(rs[j], end) ]
    IN  normalize_list_to_ranges(FlattenClosed(out), 0)

\* normalize_range(ranges) for a tuple (start, stop)
normalize_range(start, stop) ==
    LET step == IF stop < start THEN -1 ELSE 1
    IN  RangeList(start, stop + step, step)

\* normalize_ranges_to_list(ranges) for a list of tuples
RECURSIVE normalize_ranges_to_list(_)
normalize_ranges_to_list(rs) ==
    IF rs = <<>> THEN <<>>
    ELSE normalize_range(rs[1][1], rs[1][2]) \o normalize_ranges_to_list(Tail(rs))

\* {*range(enda)} - b_frames
UncoveredKeepsAll(enda, b_frames) == 0..(enda - 1)
Uncovered(enda, b_frames) == 0..(enda - 1) \ b_frames

\* invert_ranges(ranges, enda, endb); endb is an endpoint value (None or int)
invert_ranges(rspec, enda, endb) ==
    LET norm_ranges == normalize_ranges(rspec, IF endb.none THEN enda ELSE endb.v)
        b_frames == SeqToSet(normalize_ranges_to_list(norm_ranges))
    IN  RangesOfSet(Uncovered(enda, b_frames), 0)

\* The arguments callers pass
FrameLists == UNION { [1..n -> Vals] : n \in 0..MaxLen }
Endpoints == {NoneEnd} \cup { IntEnd(v) : v \in Vals }
RangeItems ==
    {NoneRange} \cup { IntRange(v) : v \in Vals }
                \cup { TupleRange(a, b) : a \in Endpoints, b \in Endpoints }
RangeSpecs ==
    { [list |-> FALSE, val |-> r] : r \in RangeItems }
        \cup { [list |-> TRUE, val |-> l] :
                 l \in {<<>>} \cup { <<r>> : r \in RangeItems }
                             \cup { <<r, q>> : r \in RangeItems, q \in RangeItems } }
Ends == 0..MaxEnd

NotRun == [done |-> FALSE]
FnReturned(ret) == [done |-> TRUE, raised |-> "none", ret |-> ret]

CallListToRanges ==
    /\ fnCall.fn = "normalize_list_to_ranges"
    /\ ~fnResult.done
    /\ fnResult' = FnReturned(normalize_list_to_ranges(fnCall.flist, fnCall.min_length))
    /\ UNCHANGED <<fnCall, notFn>>

CallNormalizeRanges ==
    /\ fnCall.fn = "normalize_ranges"
    /\ ~fnResult.done
    /\ fnResult' = FnReturned(normalize_ranges(fnCall.ranges, fnCall.end))
    /\ UNCHANGED <<fnCall, notFn>>

CallInvertRanges ==
    /\ fnCall.fn = "invert_ranges"
    /\ ~fnResult.done
    /\ fnResult' = FnReturned(invert_ranges(fnCall.ranges, fnCall.enda, fnCall.endb))
    /\ UNCHANGED <<fnCall, notFn>>

\* ------------------------------------------------------------------------
\* functions/funcs.py: fallback and kwargs_fallback
\* ------------------------------------------------------------------------

\* The number of fallbacks a caller passes
MaxFallbacks == 4

\* fallback_missing = object(), and the enum member MISSING
fallback_missing == [kind |-> "object", name |-> "fallback_missing", id |-> 0]
MISSING == [kind |-> "enum", name |-> "MISSING", id |-> 0]

\* for fallback in fallbacks: if fallback is not None: return fallback
\* The position of the first fallback that is not None from i on, or 0.
RECURSIVE FirstNotNone(_, _)
FirstNotNone(fallbacks, i) ==
    IF i > Len(fallbacks) THEN 0
    ELSE IF fallbacks[i] # NoneV THEN i
    ELSE FirstNotNone(fallbacks, i + 1)

\* elif len(fallbacks) > 3:
MissingAbove == 3
ReturnsMissingNever(fallbacks) == FALSE
ReturnsMissing(fallbacks) == Len(fallbacks) > MissingAbove

\* fallback(value, *fallbacks, default=default)
fallback(value, fallbacks, default) ==
    LET hit == FirstNotNone(fallbacks, 1)
    IN  IF value # NoneV THEN FnReturned(value)
        ELSE IF hit # 0 THEN FnReturned(fallbacks[hit])
        ELSE IF default # fallback_missing THEN FnReturned(default)
        ELSE IF ReturnsMissing(fallbacks) THEN FnReturned(MISSING)
        ELSE [done |-> TRUE, raised |-> "CustomRuntimeError", ret |-> NoneV]

\* kwargs_fallback(value, (kwargs, key), *fallbacks, default=default), with
\* entry = kwargs.get(key, None)
kwargs_fallback(value, entry, fallbacks, default) ==
    fallback(value, <<entry>> \o fallbacks, default)

\* The arguments callers pass
FallbackVals == {NoneV, IntV("1"), IntV("2")}
FallbackLists == UNION { [1..n -> FallbackVals] : n \in 0..MaxFallbacks }
Defaults == {fallback_missing} \cup FallbackVals

CallFallback ==
    /\ fnCall.fn = "fallback"
    /\ ~fnResult.done
    /\ fnResult' = fallback(fnCall.value, fnCall.fallbacks, fnCall.default)
    /\ UNCHANGED <<fnCall, notFn>>

CallKwargsFallback ==
    /\ fnCall.fn = "kwargs_fallback"
    /\ ~fnResult.done
    /\ fnResult' = kwargs_fallback(fnCall.value, fnCall.entry, fnCall.fallbacks,
                                   fnCall.default)
    /\ UNCHANGED <<fnCall, notFn>>

\* ------------------------------------------------------------------------
\* enums/other.py: Coordinate, Position, Size
\* ------------------------------------------------------------------------

\* The largest component a caller passes, and the number of coordinate
\* objects that exist at once.  Callers pass the non-negative values up to
\* MaxCoord and one negative value.  Position and Size inherit __init__
\* unchanged and add nothing, so one class stands for the three.
MaxCoord == 1
MaxCoords == 2
CoordVals == {-1} \cup 0..MaxCoord

\* The first argument of Coordinate(...): an int, a tuple of two ints, or
\* another coordinate object
IntArg(v) == [kind |-> "int", x |-> v, y |-> 0, id |-> 0]
TupleArg(x, y) == [kind |-> "tuple", x |-> x, y |-> y, id |-> 0]
CoordArg(i) == [kind |-> "coord", x |-> 0, y |-> 0, id |-> i]

\* if isinstance(x_or_self, int): x = x_or_self
\* else: x, y = x_or_self if isinstance(x_or_self, tuple)
\*                        else (x_or_self.x, x_or_self.y)
\* y is an endpoint-like optional int: the second argument, None if omitted.
ComponentsSwapped(x_or_self, y) ==
    CASE x_or_self.kind = "int" -> <<y, IntEnd(x_or_self.x)>>
      [] x_or_self.kind = "tuple" -> <<IntEnd(x_or_self.y), IntEnd(x_or_self.x)>>
      [] x_or_self.kind = "coord" -> <<IntEnd(coords[x_or_self.id].y),
                                       IntEnd(coords[x_or_self.id].x)>>
Components(x_or_self, y) ==
    CASE x_or_self.kind = "int" -> <<IntEnd(x_or_self.x), y>>
      [] x_or_self.kind = "tuple" -> <<IntEnd(x_or_self.x), IntEnd(x_or_self.y)>>
      [] x_or_self.kind = "coord" -> <<IntEnd(coords[x_or_self.id].x),
                                       IntEnd(coords[x_or_self.id].y)>>

\* if x < 0 or y < 0:
AnyNegativeOnlyX(x, y) == x < 0
AnyNegative(x, y) == x < 0 \/ y < 0

\* Coordinate.__init__(self, x_or_self, y): what it raises, or the attributes
\* it sets
CoordinateInit(x_or_self, y) ==
    LET c == Components(x_or_self, y)
    IN  IF c[2].none
        THEN [raised |-> "CustomValueError", message |-> "y coordinate must be defined!",
              x |-> 0, y |-> 0]
        ELSE IF AnyNegative(c[1].v, c[2].v)
        THEN [raised |-> "CustomValueError", message |-> "Values can't be negative!",
              x |-> 0, y |-> 0]
        ELSE [raised |-> "none", message |-> "", x |-> c[1].v, y |-> c[2].v]

\* Coordinate(x_or_self, y): the object exists only if __init__ returns
Construct(x_or_self, y) ==
    LET r == CoordinateInit(x_or_self, y)
        ok == r.raised = "none"
    IN  /\ ok => Len(coords) < MaxCoords
        /\ coords' = IF ok
                      THEN Append(coords, [x |-> r.x, y |-> r.y])
                      ELSE coords
        /\ lastCoord' = [done |-> TRUE, x_or_self |-> x_or_self, y |-> y,
                          raised |-> r.raised, message |-> r.message,
                          before |-> Len(coords),
                          obj |-> IF ok THEN Len(coords) + 1 ELSE 0]
        /\ UNCHANGED notCoord

\* obj.x = v and obj.y = v: x and y are plain instance attributes.  The
\* outcome of the latest constructor call is forgotten.
AssignX(i, v) ==
    /\ coords' = [coords EXCEPT ![i].x = v]
    /\ lastCoord' = [done |-> FALSE]
    /\ UNCHANGED notCoord
AssignY(i, v) ==
    /\ coords' = [coords EXCEPT ![i].y = v]
    /\ lastCoord' = [done |-> FALSE]
    /\ UNCHANGED notCoord

ConstructFromInts ==
    \E x \in CoordVals, y \in {NoneEnd} \cup { IntEnd(v) : v \in CoordVals } :
        Construct(IntArg(x), y)
ConstructFromTuple ==
    \E x \in CoordVals, y \in CoordVals : Construct(TupleArg(x, y), NoneEnd)
ConstructFromCoordinate ==
    \E i \in 1..Len(coords) : Construct(CoordArg(i), NoneEnd)
AssignAttribute ==
    \E i \in 1..Len(coords), v \in CoordVals : AssignX(i, v) \/ AssignY(i, v)

\* ------------------------------------------------------------------------
\* utils/ranges.py: ranges_product
\* ------------------------------------------------------------------------

\* The largest length a caller passes and the largest number of arguments
MaxDim == 2
MaxRanges == 4

\* An argument of ranges_product: an int x, or a range object
IntDim(x) == [kind |-> "int", start |-> 0, stop |-> x]
RangeDim(a, b) == [kind |-> "range", start |-> a, stop |-> b]
Dims == { IntDim(x) : x \in 0..MaxDim } \cup { RangeDim(1, MaxDim + 1) }
DimLists == UNION { [1..n -> Dims] : n \in 0..MaxRanges }

\* range(x) if isinstance(x, int) else x, as the list of its elements
AsRange(d) == RangeList(d.start, d.stop, 1)

\* The tuples the nested loops over two or three iterables yield, in order
Product2(a, b) ==
    [ k \in 1..(Len(a) * Len(b)) |->
        << a[((k - 1) \div Len(b)) + 1], b[((k - 1) % Len(b)) + 1] >> ]
Product3(a, b, c) ==
    [ k \in 1..(Len(a) * Len(b) * Len(c)) |->
        << a[((k - 1) \div (Len(b) * Len(c))) + 1],
           b[(((k - 1) \div Len(c)) % Len(b)) + 1],
           c[((k - 1) % Len(c)) + 1] >> ]

\* The body of ranges_product up to its first yield: what it raises
RangesProductRaises(n_iterables) ==
    IF n_iterables <= 1 \/ n_iterables > 3 THEN "CustomIndexError" ELSE "none"

\* ranges_product(*_iterables): the function contains `yield`, so the call
\* runs none of its body and returns a generator object
CallRangesProduct(args) ==
    /\ gen.fn = "none"
    /\ gen' = [fn |-> "ranges_product", args |-> args, status |-> "created", pos |-> 0]
    /\ genRaised' = "none"
    /\ UNCHANGED <<yielded, notGen>>

\* next(generator): runs the body from where it is suspended to the next
\* yield, to its end (StopIteration) or to a raise
NextRangesProduct ==
    /\ gen.fn = "ranges_product"
    /\ gen.status \in {"created", "suspended"}
    /\ LET n == Len(gen.args)
           its == [ j \in 1..n |-> AsRange(gen.args[j]) ]
           all == IF n = 2 THEN Product2(its[1], its[2])
                  ELSE IF n = 3 THEN Product3(its[1], its[2], its[3])
                  ELSE <<>>
       IN  IF RangesProductRaises(n) # "none"
           THEN /\ gen' = [gen EXCEPT !.status = "raised"]
                /\ genRaised' = RangesProductRaises(n)
                /\ UNCHANGED yielded
           ELSE IF gen.pos < Len(all)
           THEN /\ gen' = [gen EXCEPT !.status = "suspended", !.pos = gen.pos + 1]
                /\ yielded' = Append(yielded, all[gen.pos + 1])
                /\ genRaised' = "none"
           ELSE /\ gen' = [gen EXCEPT !.status = "finished"]
                /\ genRaised' = "StopIteration"
                /\ UNCHANGED yielded
    /\ UNCHANGED notGen

\* ------------------------------------------------------------------------
\* utils/ranges.py: interleave_arr
\* ------------------------------------------------------------------------

\* The lengths of the two arrays and the values of n a caller passes
MaxArrLen == 2
MaxN == 2

\* The elements of an array: any object, None included
ElemVals == {"None", "x"}
Arrays == UNION { [1..k -> ElemVals] : k \in 0..MaxArrLen }

\* An element as it comes out of the generator, with the array (0 or 1) and
\* the position it was taken from
Elem(src, idx, val) == [src |-> src, idx |-> idx, val |-> val]

\* x is not None
IsNotNone(x) == x.val # "None"

\* chain.from_iterable(zip_longest(arr0, arr1)) from position i on:
\* arr0[i], arr1[i], arr0[i+1], ... with None where the shorter array has
\* ended
RECURSIVE ZipLongestChain(_, _, _)
ZipLongestChain(arr0, arr1, i) ==
    IF i > Len(arr0) /\ i > Len(arr1) THEN <<>>
    ELSE << IF i <= Len(arr0) THEN Elem(0, i, arr0[i]) ELSE Elem(0, 0, "None"),
            IF i <= Len(arr1) THEN Elem(1, i, arr1[i]) ELSE Elem(1, 0, "None") >>
         \o ZipLongestChain(arr0, arr1, i + 1)

\* if n == 1: yield from (x for x in chain.from_iterable(zip_longest(arr0, arr1))
\*                        if x is not None)
InterleaveOne(arr0, arr1) == SelectSeq(ZipLongestChain(arr0, arr1, 1), IsNotNone)

\* The while loop for n != 1, with i0 and i1 elements already taken from the
\* two iterators: up to n elements of arr0 (a StopIteration clears
\* arr0_vals), then one of arr1 (a StopIteration clears arr1_vals)
RECURSIVE InterleaveLoop(_, _, _, _, _, _, _)
InterleaveLoop(arr0, arr1, n, i0, i1, arr0_vals, arr1_vals) ==
    IF ~(arr1_vals \/ arr0_vals) THEN <<>>
    ELSE LET left0 == Len(arr0) - i0
             take0 == IF ~arr0_vals THEN 0 ELSE IF left0 < n THEN left0 ELSE n
             vals0 == arr0_vals /\ left0 >= n
             take1 == IF arr1_vals /\ i1 < Len(arr1) THEN 1 ELSE 0
             vals1 == arr1_vals /\ i1 < Len(arr1)
         IN  [ j \in 1..take0 |-> Elem(0, i0 + j, arr0[i0 + j]) ]
             \o [ j \in 1..take1 |-> Elem(1, i1 + j, arr1[i1 + j]) ]
             \o InterleaveLoop(arr0, arr1, n, i0 + take0, i1 + take1, vals0, vals1)

\* Everything iterating interleave_arr(arr0, arr1, n) yields, in order
interleave_arr(arr0, arr1, n) ==
    IF n = 1 THEN InterleaveOne(arr0, arr1)
    ELSE InterleaveLoop(arr0, arr1, n, 0, 0, TRUE, TRUE)

\* interleave_arr(arr0, arr1, n): the call returns a generator object
CallInterleaveArr(arr0, arr1, n) ==
    /\ gen.fn = "none"
    /\ gen' = [fn |-> "interleave_arr", arr0 |-> arr0, arr1 |-> arr1, n |-> n,
               status |-> "created", pos |-> 0]
    /\ genRaised' = "none"
    /\ UNCHANGED <<yielded, notGen>>

\* next(generator): the next element, or StopIteration at the end
NextInterleaveArr ==
    /\ gen.fn = "interleave_arr"
    /\ gen.status \in {"created", "suspended"}
    /\ LET all == interleave_arr(gen.arr0, gen.arr1, gen.n)
       IN  IF gen.pos < Len(all)
           THEN /\ gen' = [gen EXCEPT !.status = "suspended", !.pos = gen.pos + 1]
                /\ yielded' = Append(yielded, all[gen.pos + 1])
                /\ genRaised' = "none"
           ELSE /\ gen' = [gen EXCEPT !.status = "finished"]
                /\ genRaised' = "StopIteration"
                /\ UNCHANGED yielded
    /\ UNCHANGED notGen

\* ------------------------------------------------------------------------
\* exceptions/generic.py: MismatchError, MismatchRefError
\* ------------------------------------------------------------------------

\* The number of items a caller passes to check()
MaxItems == 3

\* Items to compare: `val` is what == compares (1 == 1.0, 1 != '1'), `name`
\* is str(item)
Item(type, val, name) == [type |-> type, val |-> val, name |-> name]
CheckItems ==
    { Item("int", "1", "1"), Item("float", "1", "1.0"), Item("str", "'1'", "1"),
      Item("int", "2", "2") }
ItemLists == UNION { [1..n -> CheckItems] : n \in 0..MaxItems }

\* MismatchError._item_to_name(item): str(item)
_item_to_name(item) == item.name

\* tuple(dict.fromkeys(q).keys()): the distinct elements of q in the order of
\* their first occurrence
RECURSIVE FromKeys(_)
FromKeys(q) ==
    IF q = <<>> THEN <<>>
    ELSE LET front == FromKeys(SubSeq(q, 1, Len(q) - 1))
             last == q[Len(q)]
         IN  IF last \in SeqToSet(front) THEN front ELSE Append(front, last)

\* MismatchError._reduce(items)
_reduce(items) == FromKeys([ j \in 1..Len(items) |-> _item_to_name(items[j]) ])

\* if len(cls._reduce(items)) != 1:
MismatchFound(items) == Len(_reduce(items)) # 1

\* The exception an __init__ of the two classes builds, as check() raises it
MismatchRaised(cls, message, reduced_items) ==
    [done |-> TRUE, raised |-> cls, message |-> message, reported |-> reduced_items]
CheckPassed == [done |-> TRUE, raised |-> "none", message |-> "", reported |-> <<>>]
AllItemsMustBeEqual == "All items must be equal!"

\* MismatchError.check(func, *items): raise cls(func, items)
MismatchError_check(items) ==
    IF MismatchFound(items)
    THEN MismatchRaised("MismatchError", AllItemsMustBeEqual, _reduce(items))
    ELSE CheckPassed

\* MismatchRefError.check(func, *items): raise cls(func, *items), where
\* __init__(self, func, base, ref, message=...) takes the items one by one
MismatchRefError_check(items) ==
    IF ~MismatchFound(items) THEN CheckPassed
    ELSE IF Len(items) < 2 \/ Len(items) > 3
    THEN MismatchRaised("TypeError", "", <<>>)
    ELSE MismatchRaised("MismatchRefError",
                        IF Len(items) = 3 THEN items[3].name ELSE AllItemsMustBeEqual,
                        _reduce(<<items[1], items[2]>>))

CallMismatchCheck ==
    /\ fnCall.fn = "MismatchError.check"
    /\ ~fnResult.done
    /\ fnResult' = MismatchError_check(fnCall.items)
    /\ UNCHANGED <<fnCall, notFn>>

CallMismatchRefCheck ==
    /\ fnCall.fn = "MismatchRefError.check"
    /\ ~fnResult.done
    /\ fnResult' = MismatchRefError_check(fnCall.items)
    /\ UNCHANGED <<fnCall, notFn>>

\* ------------------------------------------------------------------------
\* types/utils.py: cachedproperty
\* ------------------------------------------------------------------------

\* The number of objects that exist at once, and the cap on the count of
\* getter runs per object and property
MaxCpObjs == 2
MaxGetterRuns == 2

\* A class P(cachedproperty.baseclass) with an attribute `field` and two
\* cached properties: p returns self.field, q returns a constant.
FieldVals == {"a", "b"}
CpProps == {"p", "q"}
Getter(prop, obj) == IF prop = "p" THEN obj.field ELSE "const"

\* dict[str, Any]()
EmptyCache == [k \in {} |-> ""]

\* baseclass.__new__: self.__dict__[cache_key] = dict(): the identity of the
\* dict the new object gets, a dict that did not exist before
NewCacheDictShared(dicts) == 1
NewCacheDict(dicts) == Len(dicts) + 1

\* P(field): baseclass.__new__, then P.__init__ sets the attribute
NewCpObject(field) ==
    /\ Len(cpObjs) < MaxCpObjs
    /\ cpDicts' = Append(cpDicts, EmptyCache)
    /\ cpObjs' = Append(cpObjs, [field |-> field, cache |-> NewCacheDict(cpDicts)])
    /\ getterRuns' = Append(getterRuns, [k \in CpProps |-> 0])
    /\ UNCHANGED <<lastRead, notCp>>

\* obj.field = v
SetField(o, v) ==
    /\ cpObjs' = [cpObjs EXCEPT ![o].field = v]
    /\ UNCHANGED <<cpDicts, getterRuns, lastRead, notCp>>

\* if name not in cache:
InCacheNever(cache, name) == FALSE
InCache(cache, name) == name \in DOMAIN cache

\* cachedproperty.__get__(obj, type(obj)) of property prop, whose fget is a
\* plain function named prop
ReadProperty(o, prop) ==
    LET cache == cpObjs[o].cache
        hit == InCache(cpDicts[cache], prop)
        value == IF hit THEN cpDicts[cache][prop] ELSE Getter(prop, cpObjs[o])
        runs == IF hit THEN getterRuns[o][prop] ELSE getterRuns[o][prop] + 1
    IN  /\ runs <= MaxGetterRuns
        /\ cpDicts' = IF hit THEN cpDicts
                       ELSE [cpDicts EXCEPT ![cache] =
                               [k \in DOMAIN cpDicts[cache] \cup {prop} |->
                                   IF k = prop THEN value ELSE cpDicts[cache][k]]]
        /\ getterRuns' = [getterRuns EXCEPT ![o][prop] = runs]
        /\ lastRead' = [done |-> TRUE, obj |-> o, prop |-> prop, ran |-> ~hit,
                         ret |-> value]
        /\ UNCHANGED <<cpObjs, notCp>>

MakeCpObject == \E f \in FieldVals : NewCpObject(f)
AssignField == \E o \in 1..Len(cpObjs), v \in FieldVals : SetField(o, v)
ReadCached == \E o \in 1..Len(cpObjs), prop \in CpProps : ReadProperty(o, prop)

\* ------------------------------------------------------------------------
\* SingletonMeta
\* ------------------------------------------------------------------------

\* The values a caller passes to a constructor; __init__(self, v) stores v
MaxArg == 2
CtorArgs == 1..MaxArg

\* Four classes with metaclass SingletonMeta, as their class statements give
\* them: the base class ("" for none) and the class keyword init (False when
\* the statement has none).
\*   class A(metaclass=SingletonMeta)
\*   class B(metaclass=SingletonMeta, init=True)
\*   class SB(B)
\*   class SA(A, init=True)
SingletonClasses ==
    [ A  |-> [base |-> "",  init |-> FALSE],
      B  |-> [base |-> "",  init |-> TRUE],
      SB |-> [base |-> "B", init |-> FALSE],
      SA |-> [base |-> "A", init |-> TRUE] ]

\* cls._singleton_init: SingletonMeta.__new__ puts kwargs.pop('init', False)
\* into the namespace of every class it creates, so the attribute is always
\* the class's own and never found on a base class.
SingletonInitInherited(cls) ==
    \/ SingletonClasses[cls].init
    \/ /\ SingletonClasses[cls].base # ""
       /\ SingletonClasses[SingletonClasses[cls].base].init
_singleton_init(cls) == SingletonClasses[cls].init

\* if cls not in cls._instances:
NotInInstancesAlways(cls) == TRUE
NotInInstances(cls) == cls \notin DOMAIN _instances

\* SingletonMeta.__call__(cls, v)
SingletonCall(cls, v) ==
    LET fresh == NotInInstances(cls)
        reinit == ~fresh /\ _singleton_init(cls)
        id == IF fresh THEN Len(singletons) + 1 ELSE _instances[cls]
    IN  /\ singletons' =
              IF fresh THEN Append(singletons, [type |-> cls, v |-> v])
              ELSE IF reinit THEN [singletons EXCEPT ![id].v = v]
              ELSE singletons
        /\ _instances' =
              IF fresh THEN DictUnion(_instances, [c \in {cls} |-> id]) ELSE _instances
        /\ lastNew' = [done |-> TRUE, cls |-> cls, v |-> v, ret |-> _instances'[cls],
                       created |-> fresh, reinit |-> reinit]
        /\ UNCHANGED notSg

CallSingleton == \E cls \in DOMAIN SingletonClasses, v \in CtorArgs : SingletonCall(cls, v)

\* ------------------------------------------------------------------------
\* Specifications
\* ------------------------------------------------------------------------

\* A program that builds no lookup table
NoLut ==
    /\ ranges = <<>>
    /\ _ranges_idx_lut = <<>>
    /\ _misses_n = 0
    /\ lastLookup = NoLookup

\* A program that calls none of the module-level functions
NoFn ==
    /\ fnCall = [fn |-> "none"]
    /\ fnResult = [done |-> FALSE]

\* A program that builds no Coordinate
NoCoord ==
    /\ coords = <<>>
    /\ lastCoord = [done |-> FALSE]

\* A program that creates no generator
NoGen ==
    /\ gen = [fn |-> "none"]
    /\ yielded = <<>>
    /\ genRaised = "none"

\* A program with no object that has a cachedproperty
NoCp ==
    /\ cpObjs = <<>>
    /\ cpDicts = <<>>
    /\ getterRuns = <<>>
    /\ lastRead = [done |-> FALSE]

\* A program that calls no singleton class
NoSg ==
    /\ _instances = EmptyKw
    /\ singletons = <<>>
    /\ lastNew = [done |-> FALSE]

\* A LinearRangeLut built from any mapping and then only looked up
InitTable == InitLut /\ InitInj /\ NoFn /\ NoCoord /\ NoGen /\ NoCp /\ NoSg
SpecLut == InitTable /\ [][LutNext]_vars

\* A class whose methods are decorated with inject_self, plain or through
\* with_args, accessed and called in any order
InitClass == NoLut /\ InitInj /\ NoFn /\ NoCoord /\ NoGen /\ NoCp /\ NoSg
PlainMethods == {"plain", "with_args"}
NextPlain == GetViaClass(PlainMethods, {"C"}) \/ GetViaInstance(PlainMethods) \/ CallWrapper
SpecPlain == InitClass /\ [][NextPlain]_vars

\* The same for methods decorated with inject_self.cached, accessed through C
\* and through its subclass S
CachedMethods == {"cached", "cached_with"}
NextCached == GetViaClass(CachedMethods, {"C", "S"}) \/ GetViaInstance(CachedMethods) \/ CallWrapper
SpecCached == InitClass /\ [][NextCached]_vars

\* The same for methods decorated with inject_self.init_kwargs and
\* inject_self.init_kwargs.clean that take **kwargs
InitKwMethods == {"init_with", "init_clean"}
NextInitKw == GetViaClass(InitKwMethods, {"C"}) \/ GetViaInstance(InitKwMethods) \/ CallWrapper
SpecInitKw == InitClass /\ [][NextInitKw]_vars

\* The same for a method decorated with inject_self.init_kwargs that takes no
\* **kwargs
NoVarKwMethods == {"init_nokw"}
NextNoVarKw == GetViaClass(NoVarKwMethods, {"C", "S"}) \/ GetViaInstance(NoVarKwMethods) \/ CallWrapper
SpecNoVarKw == InitClass /\ [][NextNoVarKw]_vars

\* The same for a method wrapped as inject_self(function, cache=True)
CacheKwMethods == {"cache_kw"}
NextCacheKw == GetViaClass(CacheKwMethods, {"C", "S"}) \/ GetViaInstance(CacheKwMethods) \/ CallWrapper
SpecCacheKw == InitClass /\ [][NextCacheKw]_vars

\* A class with a property decorated with inject_self.cached.property and
\* one decorated with inject_self.property, read through C, S and instances
Properties == {"cached_prop", "plain_prop"}
NextCachedProp ==
    \/ ReadPropertyViaClass(Properties, {"C", "S"})
    \/ ReadPropertyViaInstance(Properties)
SpecCachedProp == InitClass /\ [][NextCachedProp]_vars

\* One call of normalize_list_to_ranges with any list and min_length
InitListToRanges ==
    /\ NoLut /\ InitInj /\ NoCoord /\ NoGen /\ NoCp /\ NoSg
    /\ fnCall \in { [fn |-> "normalize_list_to_ranges", flist |-> l, min_length |-> m] :
                      l \in FrameLists, m \in 0..MaxMinLength }
    /\ fnResult = NotRun
SpecListToRanges == InitListToRanges /\ [][CallListToRanges]_vars

\* One call of normalize_ranges with any range specification and end
InitNormalizeRanges ==
    /\ NoLut /\ InitInj /\ NoCoord /\ NoGen /\ NoCp /\ NoSg
    /\ fnCall \in { [fn |-> "normalize_ranges", ranges |-> r, end |-> e] :
                      r \in RangeSpecs, e \in Ends }
    /\ fnResult = NotRun
SpecNormalizeRanges == InitNormalizeRanges /\ [][CallNormalizeRanges]_vars

\* One call of invert_ranges with any range specification, enda and endb
InitInvertRanges ==
    /\ NoLut /\ InitInj /\ NoCoord /\ NoGen /\ NoCp /\ NoSg
    /\ fnCall \in { [fn |-> "invert_ranges", ranges |-> r, enda |-> a, endb |-> b] :
                      r \in RangeSpecs, a \in Ends,
                      b \in {NoneEnd} \cup { IntEnd(e) : e \in Ends } }
    /\ fnResult = NotRun
SpecInvertRanges == InitInvertRanges /\ [][CallInvertRanges]_vars

\* One call of fallback or kwargs_fallback with any arguments
InitFallback ==
    /\ NoLut /\ InitInj /\ NoCoord /\ NoGen /\ NoCp /\ NoSg
    /\ fnCall \in
          { [fn |-> "fallback", value |-> v, entry |-> NoneV, fallbacks |-> f,
             default |-> d] :
              v \in FallbackVals, f \in FallbackLists, d \in Defaults }
          \cup
          { [fn |-> "kwargs_fallback", value |-> v, entry |-> e, fallbacks |-> f,
             default |-> d] :
              v \in FallbackVals, e \in FallbackVals, f \in FallbackLists,
              d \in Defaults }
    /\ fnResult = NotRun
NextFallback == CallFallback \/ CallKwargsFallback
SpecFallback == InitFallback /\ [][NextFallback]_vars

\* A program that constructs coordinates in any of the three forms and
\* assigns their attributes
InitCoordinate == NoLut /\ InitInj /\ NoFn /\ NoCoord /\ NoGen /\ NoCp /\ NoSg
NextCoordinate ==
    ConstructFromInts \/ ConstructFromTuple \/ ConstructFromCoordinate \/ AssignAttribute
SpecCoordinate == InitCoordinate /\ [][NextCoordinate]_vars

\* One call of ranges_product with any number of arguments, and the
\* iteration of what it returned
InitRangesProduct == NoLut /\ InitInj /\ NoFn /\ NoCoord /\ NoGen /\ NoCp /\ NoSg
IterateRangesProduct == (\E args \in DimLists : CallRangesProduct(args)) \/ NextRangesProduct
SpecRangesProduct == InitRangesProduct /\ [][IterateRangesProduct]_vars

\* One call of interleave_arr with any two arrays and any n >= 1, and the
\* iteration of its result
InitInterleave == NoLut /\ InitInj /\ NoFn /\ NoCoord /\ NoGen /\ NoCp /\ NoSg
IterateInterleave ==
    \/ \E arr0 \in Arrays, arr1 \in Arrays, n \in 1..MaxN : CallInterleaveArr(arr0, arr1, n)
    \/ NextInterleaveArr
SpecInterleave == InitInterleave /\ [][IterateInterleave]_vars

\* One call of MismatchError.check or MismatchRefError.check with any items
InitMismatch ==
    /\ NoLut /\ InitInj /\ NoCoord /\ NoGen /\ NoCp /\ NoSg
    /\ fnCall \in { [fn |-> f, items |-> q] :
                      f \in {"MismatchError.check", "MismatchRefError.check"},
                      q \in ItemLists }
    /\ fnResult = NotRun
NextMismatch == CallMismatchCheck \/ CallMismatchRefCheck
SpecMismatch == InitMismatch /\ [][NextMismatch]_vars

\* A program that makes objects with cached properties, reads the properties
\* and changes what their getters would return
InitCachedProperty == NoLut /\ InitInj /\ NoFn /\ NoCoord /\ NoGen /\ NoCp /\ NoSg
NextCachedProperty == MakeCpObject \/ AssignField \/ ReadCached
SpecCachedProperty == InitCachedProperty /\ [][NextCachedProperty]_vars

\* A program that calls the four singleton classes in any order
InitSingleton == NoLut /\ InitInj /\ NoFn /\ NoCoord /\ NoGen /\ NoCp /\ NoSg
SpecSingleton == InitSingleton /\ [][CallSingleton]_vars

\* ------------------------------------------------------------------------
\* Properties of LinearRangeLut
\* ------------------------------------------------------------------------
Contained(lut, n) == \E i \in 1..Len(lut) : InRange(n, lut[i])

PairwiseDisjoint(m) ==
    \A i, j \in 1..Len(m) :
        i # j => \A n \in 0..MaxKey : ~(InRange(n, m[i]) /\ InRange(n, m[j]))

\* What a freshly built table returns for a contained key: the identifier of
\* the first bucket of the supplied mapping that contains it.
FreshResult(n) ==
    LET p == CHOOSE p \in 1..Len(ranges) :
                /\ InRange(n, ranges[p])
                /\ \A q \in 1..(p - 1) : ~InRange(n, ranges[q])
    IN  ranges[p].idx

Returned == lastLookup.called /\ lastLookup.raised = "none"

\* C1: a lookup of a key that some bucket contains returns, whatever lookups
\* came before, the identifier of the first bucket of the scan order (as it
\* was when the lookup started) whose range contains the key; when the
\* buckets are pairwise disjoint that is the one bucket containing the key.
C1_LookupFirstContaining ==
    (lastLookup.called /\ Contained(lastLookup.before, lastLookup.n)) =>
        /\ Returned
        /\ \E p \in 1..Len(lastLookup.before) :
              /\ lastLookup.before[p].idx = lastLookup.ret
              /\ InRange(lastLookup.n, lastLookup.before[p])
              /\ \A q \in 1..(p - 1) : ~InRange(lastLookup.n, lastLookup.before[q])
        /\ PairwiseDisjoint(ranges) =>
              \A i \in 1..Len(ranges) :
                  InRange(lastLookup.n, ranges[i]) => ranges[i].idx = lastLookup.ret

\* C1 witness: a contained key is found at a later position of an order that
\* earlier lookups have already rotated.
C1_Witness ==
    /\ Returned
    /\ lastLookup.before # ranges
    /\ lastLookup.missed_hit > 0
    /\ InRange(lastLookup.n, lastLookup.before[lastLookup.missed_hit + 1])

\* C2 as stated: for any mapping, overlapping or not, a lookup of a contained
\* key returns what a freshly built table returns for it.
C2_Original ==
    (lastLookup.called /\ Contained(ranges, lastLookup.n)) =>
        Returned /\ lastLookup.ret = FreshResult(lastLookup.n)

\* C2 amended: when the buckets are pairwise disjoint, a lookup of a contained
\* key returns, after any earlier lookups, what a freshly built table returns.
C2_DisjointResultInvariant ==
    (PairwiseDisjoint(ranges) /\ lastLookup.called /\ Contained(ranges, lastLookup.n)) =>
        Returned /\ lastLookup.ret = FreshResult(lastLookup.n)

\* C2 witness: disjoint buckets, a rotated order, and a key found at another
\* scan position than on a fresh table, with the fresh table's result.
C2_Witness ==
    /\ PairwiseDisjoint(ranges)
    /\ Returned
    /\ Contained(ranges, lastLookup.n)
    /\ lastLookup.before # ranges
    /\ ranges[lastLookup.missed_hit + 1].idx # lastLookup.ret
    /\ lastLookup.ret = FreshResult(lastLookup.n)

\* C3 as stated: while the miss counter is at most 3 the scan order is the
\* order of the supplied mapping.
C3_Original == _misses_n <= 3 => _ranges_idx_lut = ranges

\* C3 amended: a lookup rotates the order only when the miss counter, this
\* lookup included, exceeds 2; while it is at most 2 the scan order is the
\* order of the supplied mapping.
C3_RotationOnlyAboveTwo ==
    /\ _misses_n <= 2 => _ranges_idx_lut = ranges
    /\ (Returned /\ lastLookup.rotated) => _misses_n > 2
    /\ (Returned /\ _ranges_idx_lut # lastLookup.before) => _misses_n > 2

\* C3 witness: two lookups have stopped past the first bucket, the latest one
\* just now, and the order is still the supplied one.
C3_Witness ==
    /\ Returned
    /\ lastLookup.missed_hit > 0
    /\ _misses_n = 2
    /\ _ranges_idx_lut = ranges

\* C4: a lookup that rotates leaves the previous order cyclically shifted so
\* that the bucket its scan stopped at is first, and the scan order is always
\* a cyclic rotation of the supplied mapping's order.
C4_CyclicRotation ==
    /\ (Returned /\ lastLookup.rotated) =>
          LET b == lastLookup.before
              len == Len(b)
          IN  /\ Len(_ranges_idx_lut) = len
              /\ _ranges_idx_lut[1] = b[lastLookup.missed_hit + 1]
              /\ _ranges_idx_lut[1].idx = lastLookup.ret
              /\ \A i \in 1..len :
                    _ranges_idx_lut[i] = b[((i - 1 + lastLookup.missed_hit) % len) + 1]
    /\ Len(_ranges_idx_lut) = Len(ranges)
    /\ Len(ranges) > 0 =>
          \E k \in 0..(Len(ranges) - 1) :
              \A i \in 1..Len(ranges) :
                  _ranges_idx_lut[i] = ranges[((i - 1 + k) % Len(ranges)) + 1]

\* C4 witness: a table of three buckets is rotated by a lookup that stopped at
\* its second bucket.
C4_Witness ==
    /\ Returned
    /\ lastLookup.rotated
    /\ Len(ranges) = 3
    /\ lastLookup.missed_hit = 1

\* C24: the miss counter starts at 0 and never decreases; a lookup that
\* stops at the first scan position changes neither the counter nor the scan
\* order, any other lookup adds exactly one; the order is rotated for the
\* first time when the counter passes 2, and from then on every lookup that
\* stops past the first position changes the order again.
C24_MissCounterCumulative ==
    /\ _misses_n = 0
    /\ [][ /\ _misses_n' >= _misses_n
           /\ (lastLookup'.called /\ lastLookup'.raised = "none") =>
                /\ lastLookup'.missed_hit = 0 =>
                      /\ _misses_n' = _misses_n
                      /\ _ranges_idx_lut' = _ranges_idx_lut
                /\ lastLookup'.missed_hit # 0 => _misses_n' = _misses_n + 1
                /\ (_ranges_idx_lut' # _ranges_idx_lut) => _misses_n' >= 3
                /\ (lastLookup'.missed_hit # 0 /\ _misses_n >= 3) =>
                      _ranges_idx_lut' # _ranges_idx_lut
         ]_vars

\* C24 witness: the fourth lookup that stopped past the first position has
\* rotated the order again, after the third had rotated it first.
C24_Witness ==
    /\ Returned
    /\ lastLookup.missed_hit # 0
    /\ lastLookup.rotated
    /\ _misses_n = 4
    /\ _ranges_idx_lut # lastLookup.before

\* C5 as stated: a lookup of a key that no bucket contains fails and returns
\* no identifier.
C5_Original ==
    (lastLookup.called /\ ~Contained(ranges, lastLookup.n)) => lastLookup.raised # "none"

\* ------------------------------------------------------------------------
\* Properties of inject_self
\* ------------------------------------------------------------------------

\* The value the latest call passed as first positional argument, and the one
\* it passed under the first parameter's name (None when absent).
PassedFirst == IF Len(lastCall.args) > 0 THEN lastCall.args[1] ELSE NoneV
PassedKeyword ==
    IF "self" \in DOMAIN lastCall.kwargs THEN lastCall.kwargs["self"] ELSE NoneV

IsObjectOf(v, t) == v.kind = "obj" /\ IsSubclass(heap[v.id].type, t)

\* The latest call went through the class (not an instance) and passed no
\* value of that class first or under the first parameter's name.
ThroughClassNoInstance ==
    /\ lastCall.called
    /\ lastCall.class_obj = NoneV
    /\ ~IsObjectOf(PassedFirst, lastCall.class_type)
    /\ ~IsObjectOf(PassedKeyword, lastCall.class_type)

\* ... and no class object in those two places either: a call without receiver.
NoReceiverCall ==
    /\ ThroughClassNoInstance
    /\ PassedFirst.kind # "class"
    /\ PassedKeyword.kind # "class"

\* The receiver of the latest call is an object this very call constructed,
\* as t(*a, **k).
FreshReceiver(t, a, k) ==
    /\ lastCall.built
    /\ lastCall.obj = Len(heap)
    /\ heap[lastCall.obj].type = t
    /\ heap[lastCall.obj].args = a
    /\ heap[lastCall.obj].kwargs = k

CacheBuilt(t) == { i \in 1..Len(heap) : heap[i].how = "cache" /\ heap[i].type = t }

C11_CacheEntryPermanentAndShared ==
    [][ /\ \A t \in DOMAIN self_objects_cache :
              /\ t \in DOMAIN self_objects_cache'
              /\ self_objects_cache'[t] = self_objects_cache[t]
        /\ \A t \in DOMAIN self_objects_cache' \ DOMAIN self_objects_cache :
              /\ lastCall'.called
              /\ lastCall'.m \in {"cached", "cached_with"}
              /\ lastCall'.class_type = t
              /\ heap'[self_objects_cache'[t]] =
                    NewObject(t, Methods[lastCall'.m].args,
                              Methods[lastCall'.m].kwargs, "cache")
        /\ (NoReceiverCall' /\ lastCall'.m \in {"cached", "cached_with"}) =>
              /\ lastCall'.class_type \in DOMAIN self_objects_cache'
              /\ lastCall'.obj = self_objects_cache'[lastCall'.class_type]
      ]_vars

\* C11 witness: the method `cached` (no stored arguments), called without
\* receiver through C, received the entry that an earlier call of
\* `cached_with` had built as C(7, k=8).
C11_Witness ==
    /\ NoReceiverCall
    /\ lastCall.m = "cached"
    /\ lastCall.class_type = "C"
    /\ ~lastCall.built
    /\ "C" \in DOMAIN self_objects_cache
    /\ lastCall.obj = self_objects_cache["C"]
    /\ heap[self_objects_cache["C"]] =
          NewObject("C", Methods["cached_with"].args, Methods["cached_with"].kwargs, "cache")

\* The objects constructed for calls without receiver through type t
BuiltForNoReceiver(t) ==
    { i \in 1..Len(heap) : heap[i].how \in {"cache", "plain"} /\ heap[i].type = t }

\* C12 as stated: a method wrapped as inject_self(function, cache=True)
\* caches like inject_self.cached: calls without receiver through a type
\* construct at most one receiver for it and all receive that one.
C12_Original ==
    /\ \A t \in {"C", "S"} : Cardinality(BuiltForNoReceiver(t)) <= 1
    /\ (NoReceiverCall /\ lastCall.m = "cache_kw") =>
          /\ lastCall.class_type \in DOMAIN self_objects_cache
          /\ lastCall.obj = self_objects_cache[lastCall.class_type]

\* C8 as stated: a value of the receiver type passed first or under the first
\* parameter's name is the receiver, nothing is constructed, and the wrapped
\* function gets all other arguments unchanged.
C8_Original ==
    lastCall.called =>
        /\ IsObjectOf(PassedFirst, lastCall.class_type) =>
              /\ lastCall.obj = PassedFirst.id
              /\ ~lastCall.built
              /\ lastCall.fwd_args = Tail(lastCall.args)
              /\ lastCall.fwd_kwargs = lastCall.kwargs
        /\ (~IsObjectOf(PassedFirst, lastCall.class_type)
              /\ IsObjectOf(PassedKeyword, lastCall.class_type)) =>
              /\ lastCall.obj = PassedKeyword.id
              /\ ~lastCall.built
              /\ lastCall.fwd_args = lastCall.args
              /\ lastCall.fwd_kwargs = DictWithout(lastCall.kwargs, {"self"})

\* Named parameters of the wrapped functions, as a set
Named(m) == SeqToSet(Methods[m].params)

\* C9 as stated: a call without receiver of an init_kwargs method constructs
\* the receiver from the call's keywords that name a named parameter; clean
\* forwards the keywords the constructor did not consume, plain forwards all.
C9_Original ==
    (NoReceiverCall /\ lastCall.m \in {"init_with", "init_clean"}) =>
        /\ FreshReceiver(lastCall.class_type, Methods[lastCall.m].args,
                         DictUnion(Methods[lastCall.m].kwargs,
                                   DictOnly(lastCall.kwargs, Named(lastCall.m))))
        /\ lastCall.fwd_kwargs =
              IF Methods[lastCall.m].clean
              THEN DictWithout(lastCall.kwargs, Named(lastCall.m))
              ELSE lastCall.kwargs

\* C9 amended: the receiver is constructed from the stored arguments and the
\* call's keywords that name NO named parameter (those **kwargs would take),
\* a call's keyword overriding a stored one; clean forwards only the keywords
\* left, those that name a named parameter, plain forwards all; positional
\* arguments are forwarded as they are.
C9_InitKwargsFromExtraKeywords ==
    (NoReceiverCall /\ lastCall.m \in {"init_with", "init_clean"}) =>
        /\ FreshReceiver(lastCall.class_type, Methods[lastCall.m].args,
                         DictUnion(Methods[lastCall.m].kwargs,
                                   DictWithout(lastCall.kwargs, Named(lastCall.m))))
        /\ lastCall.fwd_kwargs =
              IF Methods[lastCall.m].clean
              THEN DictOnly(lastCall.kwargs, Named(lastCall.m))
              ELSE lastCall.kwargs
        /\ lastCall.fwd_args = lastCall.args

\* C9 witness: the clean variant called with x=5, k=5: the constructor got
\* k=5 and the method only x=5.
C9_Witness ==
    /\ NoReceiverCall
    /\ lastCall.m = "init_clean"
    /\ lastCall.kwargs = [x |-> IntV("5"), k |-> IntV("5")]
    /\ lastCall.built
    /\ heap[lastCall.obj].kwargs = [k |-> IntV("5")]
    /\ lastCall.fwd_kwargs = [x |-> IntV("5")]

\* C10: the first access of an init_kwargs method whose function has no
\* **kwargs raises CustomValueError, hands out no wrapper, and by then neither
\* the function nor a constructor has run.
C10_NoVarKwFailsAtFirstUse ==
    (lastGet.done /\ lastGet.first /\ lastGet.m = "init_nokw") =>
        /\ lastGet.raised = "CustomValueError"
        /\ ~wrapper.held
        /\ ~lastCall.called
        /\ ~ran
        /\ \A i \in 1..Len(heap) : heap[i].how = "pre"

\* C10 witness: the first access has just failed.
C10_Witness ==
    /\ lastGet.done
    /\ lastGet.first
    /\ lastGet.m = "init_nokw"
    /\ lastGet.raised = "CustomValueError"
    /\ desc["init_nokw"].signature

\* C25: for the init_kwargs method whose function takes (self, x) and no
\* **kwargs, an access raises exactly when the descriptor has not memoized
\* the signature yet, i.e. the first one; the failed access leaves signature
\* and first-parameter name memoized and init_kwargs unset for good; every
\* later access hands out a wrapper; and a call of such a wrapper without a
\* receiver takes the plain branch: the receiver is a new
\* class_type(*self.args, **self.kwargs), with no keyword of the call in the
\* constructor's arguments, and the call's arguments reach the function as
\* they were passed.
C25_OnlyFirstAccessRaises ==
    /\ ~desc["init_nokw"].signature
    /\ [][ /\ desc["init_nokw"].signature => desc'["init_nokw"] = desc["init_nokw"]
           /\ (lastGet' # lastGet /\ lastGet'.m = "init_nokw") =>
                /\ (lastGet'.raised = "CustomValueError") <=> ~desc["init_nokw"].signature
                /\ desc'["init_nokw"].signature
                /\ desc'["init_nokw"].first_key = "self"
                /\ ~desc'["init_nokw"].init_kwargs.set
                /\ desc["init_nokw"].signature =>
                      /\ wrapper'.held
                      /\ wrapper'.m = "init_nokw"
         ]_vars
    /\ []((NoReceiverCall /\ lastCall.m = "init_nokw") =>
            /\ lastCall.branch = "plain"
            /\ FreshReceiver(lastCall.class_type,
                             Methods["init_nokw"].args, Methods["init_nokw"].kwargs)
            /\ lastCall.fwd_args = lastCall.args
            /\ lastCall.fwd_kwargs = lastCall.kwargs)

\* C25 witness: after the failed first access a later access gave a wrapper,
\* and its call with the keyword k and no receiver constructed S() without k.
C25_Witness ==
    /\ NoReceiverCall
    /\ lastCall.m = "init_nokw"
    /\ lastCall.class_type = "S"
    /\ "k" \in DOMAIN lastCall.kwargs
    /\ lastCall.built
    /\ heap[lastCall.obj].kwargs = EmptyKw
    /\ ~lastGet.first
    /\ lastGet.raised = "none"

\* The latest call was a read of the cached property through a class
CachedPropertyClassRead ==
    lastCall.called /\ lastCall.m = "cached_prop" /\ lastCall.class_obj = NoneV

\* C26 as stated: a read of the cached property on a class evaluates the
\* getter on a receiver constructed at the first read and reused by every
\* later read on that class, so a read on a class right after a read on the
\* same class has the same receiver; a read on an instance evaluates the
\* getter on that instance and constructs nothing.
C26_Original ==
    [][ /\ (CachedPropertyClassRead /\ CachedPropertyClassRead'
             /\ lastCall'.class_type = lastCall.class_type) =>
                /\ lastCall'.obj = lastCall.obj
                /\ heap' = heap
        /\ (lastCall'.called /\ lastCall'.m = "cached_prop"
             /\ lastCall'.class_obj # NoneV) =>
                /\ ~lastCall'.built
                /\ lastCall'.obj = lastCall'.class_obj.id
      ]_vars

\* ------------------------------------------------------------------------
\* Properties of the range functions
\* ------------------------------------------------------------------------

\* The integers the closed intervals of a list cover
Covered(res) == UNION { res[j][1]..res[j][2] : j \in 1..Len(res) }

\* Closed intervals in strictly ascending order, each next start greater than
\* the previous end + 1
Canonical(res) ==
    /\ \A j \in 1..Len(res) : res[j][1] <= res[j][2]
    /\ \A j \in 1..(Len(res) - 1) : res[j + 1][1] > res[j][2] + 1

\* The maximal runs of consecutive integers of a set, as closed intervals
MaximalRuns(S) ==
    { r \in S \X S :
        /\ r[1] <= r[2]
        /\ \A x \in r[1]..r[2] : x \in S
        /\ (r[1] - 1) \notin S
        /\ (r[2] + 1) \notin S }

Ran(fn) == fnCall.fn = fn /\ fnResult.done

\* C13: normalize_list_to_ranges(S) with min_length 0 returns exactly the
\* maximal runs of consecutive integers of set(S) as closed intervals: their
\* union is set(S), they are strictly ascending, and each next start is
\* greater than the previous end + 1.
C13_MaximalRunsOfTheSet ==
    (Ran("normalize_list_to_ranges") /\ fnCall.min_length = 0) =>
        LET S == SeqToSet(fnCall.flist)
        IN  /\ SeqToSet(fnResult.ret) = MaximalRuns(S)
            /\ Covered(fnResult.ret) = S
            /\ Canonical(fnResult.ret)

\* C13 witness: an unsorted list with a duplicate and a negative value gave
\* two intervals, one of them longer than a single integer.
C13_Witness ==
    /\ Ran("normalize_list_to_ranges")
    /\ fnCall.min_length = 0
    /\ fnCall.flist = <<1, -2, 1, 2>>
    /\ fnResult.ret = << <<-2, -2>>, <<1, 2>> >>

\* The maximal runs of S with at least m integers
RunsAtLeast(S, m) == { r \in MaximalRuns(S) : r[2] - r[1] + 1 >= m }

\* C14 as stated: with min_length = m a maximal run appears in the result if
\* and only if its length is at least m.
C14_Original ==
    Ran("normalize_list_to_ranges") =>
        SeqToSet(fnResult.ret) = RunsAtLeast(SeqToSet(fnCall.flist), fnCall.min_length)

\* An endpoint as C15 resolves it: None becomes the default (0 for a start,
\* end - 1 for an end), and a negative value v becomes end - 1 + v.
ClaimedEndpoint(e, default, end) ==
    LET w == IF e.none THEN default ELSE e.v
    IN  IF w < 0 THEN end - 1 + w ELSE w
ClaimedInterval(r, end) ==
    CASE r.kind = "none" -> <<ClaimedEndpoint(NoneEnd, 0, end),
                              ClaimedEndpoint(NoneEnd, end - 1, end)>>
      [] r.kind = "int" -> <<ClaimedEndpoint(r.start, 0, end),
                             ClaimedEndpoint(r.start, 0, end)>>
      [] r.kind = "tuple" -> <<ClaimedEndpoint(r.start, 0, end),
                               ClaimedEndpoint(r.stop, end - 1, end)>>

\* C15: normalize_ranges(ranges, end) resolves None and (None, None) to
\* (0, end - 1), a None start to 0, a None end to end - 1, an int i to (i, i)
\* and a negative endpoint v to end - 1 + v, and returns the canonical
\* interval list of the union of the resolved closed intervals.
C15_ResolvedUnionCanonical ==
    Ran("normalize_ranges") =>
        LET rs == AsList(fnCall.ranges)
            resolved == { ClaimedInterval(rs[j], fnCall.end) : j \in 1..Len(rs) }
        IN  /\ Covered(fnResult.ret) = UNION { r[1]..r[2] : r \in resolved }
            /\ Canonical(fnResult.ret)

\* C15 witness: normalize_ranges([(-1, None), 0], 3) resolved (-1, None) to
\* (1, 2) and 0 to (0, 0) and returned their union [(0, 2)].
C15_Witness ==
    /\ Ran("normalize_ranges")
    /\ fnCall.end = 3
    /\ fnCall.ranges = [list |-> TRUE,
                         val |-> <<TupleRange(IntEnd(-1), NoneEnd), IntRange(0)>>]
    /\ fnResult.ret = << <<0, 2>> >>

\* C16 as stated: for every range specification and every end >= 1 each
\* interval normalize_ranges returns has start >= 0 and end >= 0.
C16_Original ==
    (Ran("normalize_ranges") /\ fnCall.end >= 1) =>
        \A j \in 1..Len(fnResult.ret) :
            fnResult.ret[j][1] >= 0 /\ fnResult.ret[j][2] >= 0

\* C17: invert_ranges(r, enda, endb) returns the canonical interval list of
\* the integers of [0, enda) that normalize_ranges(r, enda if endb is None
\* else endb) does not cover: the two are disjoint, together they hold every
\* integer of [0, enda), and the result holds none outside it.
C17_InvertIsComplementWithinEnda ==
    Ran("invert_ranges") =>
        LET end == IF fnCall.endb.none THEN fnCall.enda ELSE fnCall.endb.v
            N == Covered(normalize_ranges(fnCall.ranges, end))
            R == Covered(fnResult.ret)
            all == 0..(fnCall.enda - 1)
        IN  /\ Canonical(fnResult.ret)
            /\ R \cap N = {}
            /\ all \subseteq (R \cup N)
            /\ R \subseteq all

\* C17 witness: invert_ranges([(-1, None)], 3, 2) inverted the normalized
\* input [(0, 1)], resolved against endb, within [0, 3): it returned [(2, 2)].
C17_Witness ==
    /\ Ran("invert_ranges")
    /\ fnCall.ranges = [list |-> TRUE, val |-> <<TupleRange(IntEnd(-1), NoneEnd)>>]
    /\ fnCall.enda = 3
    /\ fnCall.endb = IntEnd(2)
    /\ fnResult.ret = << <<2, 2>> >>

\* ------------------------------------------------------------------------
\* Properties of Coordinate
\* ------------------------------------------------------------------------

\* The components the latest constructor call was given: two ints, the two
\* elements of a tuple, or the attributes of another coordinate
GivenX ==
    IF lastCoord.x_or_self.kind = "coord" THEN coords[lastCoord.x_or_self.id].x
    ELSE lastCoord.x_or_self.x
GivenY ==
    CASE lastCoord.x_or_self.kind = "coord" -> coords[lastCoord.x_or_self.id].y
      [] lastCoord.x_or_self.kind = "tuple" -> lastCoord.x_or_self.y
      [] lastCoord.x_or_self.kind = "int" -> lastCoord.y.v
BothGiven == lastCoord.x_or_self.kind = "int" => ~lastCoord.y.none

\* C18: constructing a coordinate from non-negative x and y, given as two
\* arguments, as a tuple or as another coordinate, succeeds and the new
\* object exposes exactly those values; with any negative component it
\* fails with CustomValueError and no object comes to exist.
C18_ConstructionValidates ==
    (lastCoord.done /\ BothGiven) =>
        IF GivenX >= 0 /\ GivenY >= 0
        THEN /\ lastCoord.raised = "none"
             /\ Len(coords) = lastCoord.before + 1
             /\ lastCoord.obj = Len(coords)
             /\ coords[lastCoord.obj] = [x |-> GivenX, y |-> GivenY]
        ELSE /\ lastCoord.raised = "CustomValueError"
             /\ lastCoord.obj = 0
             /\ Len(coords) = lastCoord.before

\* C18 witness: a coordinate constructed from another coordinate (1, 0)
\* exposes x = 1 and y = 0.
C18_Witness ==
    /\ lastCoord.done
    /\ lastCoord.x_or_self.kind = "coord"
    /\ lastCoord.raised = "none"
    /\ lastCoord.obj = 2
    /\ coords[1] = [x |-> 1, y |-> 0]
    /\ coords[2] = [x |-> 1, y |-> 0]

\* C19 as stated: in every reachable state, attribute assignment included,
\* both components of every coordinate are >= 0.
C19_Original ==
    \A i \in 1..Len(coords) : coords[i].x >= 0 /\ coords[i].y >= 0

\* C19: both components of a coordinate are >= 0 when its construction
\* returns, and a construction changes no other coordinate; nothing is said
\* of a coordinate once x or y is assigned, which is not validated.
C19_NonNegativeAtConstruction ==
    [][ Len(coords') > Len(coords) =>
          /\ \A i \in (Len(coords) + 1)..Len(coords') :
                coords'[i].x >= 0 /\ coords'[i].y >= 0
          /\ \A i \in 1..Len(coords) : coords'[i] = coords[i]
      ]_vars

\* C19 witness: a second coordinate was constructed, with both components
\* >= 0, after an assignment had made the first one's x negative.
C19_Witness ==
    /\ lastCoord.done
    /\ lastCoord.raised = "none"
    /\ lastCoord.obj = 2
    /\ coords[1].x < 0
    /\ coords[2].x >= 0
    /\ coords[2].y >= 0

\* ------------------------------------------------------------------------
\* Properties of fallback
\* ------------------------------------------------------------------------

\* The fallbacks the call hands to fallback(): kwargs_fallback puts the
\* kwargs entry in front of its own
PassedFallbacks ==
    IF fnCall.fn = "kwargs_fallback" THEN <<fnCall.entry>> \o fnCall.fallbacks
    ELSE fnCall.fallbacks
NotNone(q) == SelectSeq(q, LAMBDA v : v # NoneV)
FallbackRan == Ran("fallback") \/ Ran("kwargs_fallback")
Raised(e) == fnResult.raised = e
Gave(v) == fnResult.raised = "none" /\ fnResult.ret = v

\* C20 as stated: value if it is not None, else the first fallback that is
\* not None, else the default if one was given; with all of them None and no
\* default it raises CustomRuntimeError, whatever the number of fallbacks.
C20_Original ==
    FallbackRan =>
        LET given == NotNone(<<fnCall.value>> \o PassedFallbacks)
        IN  IF given # <<>> THEN Gave(given[1])
            ELSE IF fnCall.default # fallback_missing THEN Gave(fnCall.default)
            ELSE Raised("CustomRuntimeError")

\* C20: value if it is not None, else the first fallback that is not None,
\* else the default if one was given; with all of them None and no default
\* it raises CustomRuntimeError when at most 3 fallbacks were passed and
\* returns MISSING when more than 3 were.
C20_FallbackOrder ==
    FallbackRan =>
        LET given == NotNone(<<fnCall.value>> \o PassedFallbacks)
        IN  IF given # <<>> THEN Gave(given[1])
            ELSE IF fnCall.default # fallback_missing THEN Gave(fnCall.default)
            ELSE IF Len(PassedFallbacks) > 3 THEN Gave(MISSING)
            ELSE Raised("CustomRuntimeError")

\* C20 witness: fallback(None, None, None, None, None) returned MISSING.
C20_Witness ==
    /\ Ran("fallback")
    /\ fnCall.value = NoneV
    /\ fnCall.fallbacks = <<NoneV, NoneV, NoneV, NoneV>>
    /\ fnCall.default = fallback_missing
    /\ Gave(MISSING)

\* ------------------------------------------------------------------------
\* Properties of ranges_product
\* ------------------------------------------------------------------------

\* C21 as stated: with fewer than two or more than three ranges
\* CustomIndexError is raised at the call itself, so no generator with a wrong
\* argument count ever exists without the error having been raised.
C21_Original ==
    (gen.fn = "ranges_product" /\ Len(gen.args) \notin {2, 3}) =>
        genRaised = "CustomIndexError"

\* The elements yielded so far that came from array src, and the elements
\* of an array arr as array src would yield them
YieldedFrom(src) == SelectSeq(yielded, LAMBDA e : e.src = src)
AllOf(src, arr) == [ i \in 1..Len(arr) |-> Elem(src, i, arr[i]) ]

\* C28 as stated: for any finite arr0, arr1 and n >= 1 the iteration ends,
\* and when it has ended every element of arr0 and of arr1 has been yielded
\* exactly once, each array's elements in their original order.
C28_Original ==
    (gen.fn = "interleave_arr" /\ gen.status = "finished") =>
        /\ YieldedFrom(0) = AllOf(0, gen.arr0)
        /\ YieldedFrom(1) = AllOf(1, gen.arr1)

\* ------------------------------------------------------------------------
\* Properties of MismatchError
\* ------------------------------------------------------------------------

\* The items are all equal; the distinct item values in first-occurrence order
AllEqual(items) == \A i, j \in 1..Len(items) : items[i].val = items[j].val
RECURSIVE DistinctValues(_)
DistinctValues(items) ==
    IF items = <<>> THEN <<>>
    ELSE LET front == DistinctValues(SubSeq(items, 1, Len(items) - 1))
             last == items[Len(items)]
         IN  IF \E j \in 1..Len(front) : front[j].val = last.val
             THEN front ELSE Append(front, last)

\* C22 as stated: MismatchError.check raises MismatchError if and only if the
\* items are not all equal, and the error reports each distinct item value
\* exactly once in first-occurrence order.
C22_Original ==
    Ran("MismatchError.check") =>
        /\ (fnResult.raised = "MismatchError") <=> ~AllEqual(fnCall.items)
        /\ (fnResult.raised = "none") <=> AllEqual(fnCall.items)
        /\ (fnResult.raised = "MismatchError") =>
              LET distinct == DistinctValues(fnCall.items)
              IN  fnResult.reported = [ j \in 1..Len(distinct) |-> distinct[j].name ]

\* ------------------------------------------------------------------------
\* Properties of cachedproperty
\* ------------------------------------------------------------------------

\* C23: for objects of a class inheriting cachedproperty.baseclass, the
\* getter of a property runs at the first read on an object and never again
\* on it; the value stored then is never changed and is what every read
\* returns; and two objects have different cache dicts, so a read on one
\* object changes no entry of another.
C23_CachedPerObjectOnce ==
    /\ [](/\ \A o \in 1..Len(cpObjs) : \A prop \in CpProps :
                /\ getterRuns[o][prop] <= 1
                /\ (getterRuns[o][prop] = 1) <=> (prop \in DOMAIN cpDicts[cpObjs[o].cache])
          /\ \A o1, o2 \in 1..Len(cpObjs) :
                o1 # o2 => cpObjs[o1].cache # cpObjs[o2].cache
          /\ lastRead.done =>
                lastRead.ret = cpDicts[cpObjs[lastRead.obj].cache][lastRead.prop])
    /\ [][ /\ \A d \in 1..Len(cpDicts) : \A k \in DOMAIN cpDicts[d] :
                /\ k \in DOMAIN cpDicts'[d]
                /\ cpDicts'[d][k] = cpDicts[d][k]
           /\ (lastRead'.done /\ lastRead' # lastRead) =>
                \A d \in 1..Len(cpDicts) :
                    d # cpObjs[lastRead'.obj].cache => cpDicts'[d] = cpDicts[d]
         ]_vars

\* C23 witness: a read of p on the first object did not run the getter and
\* returned the value stored at its first read although the getter would now
\* return another, while the second object has its own, different entry.
C23_Witness ==
    /\ lastRead.done
    /\ lastRead.obj = 1
    /\ lastRead.prop = "p"
    /\ ~lastRead.ran
    /\ lastRead.ret # Getter("p", cpObjs[1])
    /\ Len(cpObjs) = 2
    /\ "p" \in DOMAIN cpDicts[cpObjs[2].cache]
    /\ cpDicts[cpObjs[2].cache]["p"] # lastRead.ret

\* ------------------------------------------------------------------------
\* Properties of SingletonMeta
\* ------------------------------------------------------------------------

\* C27: every class has at most one instance, its own (a subclass never
\* shares its base class's); the registry entry of a class never changes
\* once made, and every call returns it; a later call stores its argument in
\* the instance when the class statement itself has init=True, and otherwise
\* leaves the instance as it was.
C27_OneInstancePerClass ==
    /\ [](/\ \A i, j \in 1..Len(singletons) :
                singletons[i].type = singletons[j].type => i = j
          /\ \A cls \in DOMAIN _instances :
                /\ _instances[cls] \in 1..Len(singletons)
                /\ singletons[_instances[cls]].type = cls
          /\ lastNew.done => lastNew.ret = _instances[lastNew.cls])
    /\ [][ /\ \A cls \in DOMAIN _instances :
                /\ cls \in DOMAIN _instances'
                /\ _instances'[cls] = _instances[cls]
           /\ \A cls \in DOMAIN _instances :
                LET before == singletons[_instances[cls]]
                    after == singletons'[_instances[cls]]
                IN  IF lastNew'.cls = cls /\ SingletonClasses[cls].init
                    THEN after = [before EXCEPT !.v = lastNew'.v]
                    ELSE after = before
         ]_vars

\* C27 witness: SB, whose base class B was declared with init=True but which
\* has no init keyword of its own, was called again with another argument
\* and kept its first one, while B and SB have different instances.
C27_Witness ==
    /\ lastNew.done
    /\ lastNew.cls = "SB"
    /\ ~lastNew.created
    /\ singletons[lastNew.ret].v # lastNew.v
    /\ "B" \in DOMAIN _instances
    /\ _instances["B"] # _instances["SB"]
====
